---- MODULE Spec2Model ----
(***************************************************************************)
(* A model of the capital-partner matcher of nyc-real-estate-leads         *)
(* (capital_matcher.py): match_partner scores one deal against one         *)
(* partner, find_matches ranks a list of partners, get_capital_partners    *)
(* parses the CRM board's items into partners, main drives them.           *)
(*                                                                         *)
(* Python strings are sequences of one-character strings, so that lower()  *)
(* and the `in` substring test are computed and not assumed.  Money is an  *)
(* integer number of dollars, percentages are integers.  The text of a     *)
(* reason or blocker is modelled by the criterion that appended it and the *)
(* literal part of its f-string; the interpolated values are left out.     *)
(*                                                                         *)
(* ScoreSpec applies match_partner to every deal and partner of the input  *)
(* sets, the partner built directly or parsed from a board item.  Spec is  *)
(* main: the deal from the command line, the partners from the demo list   *)
(* or the board, then find_matches and print_matches.  PullSpec is         *)
(* pull_new_permits (pull_dob_permits.py) run repeatedly on the CSV file,  *)
(* PushSpec the selection and push batch of the Streamlit page (app.py).   *)
(* A specification leaves the other programs' variables at their idle      *)
(* values.                                                                 *)
(***************************************************************************)
EXTENDS Integers, Sequences, FiniteSets, TLC

VARIABLES
    pc,        \* position of the running program
    deal,      \* the Deal being matched
    partner,   \* the CapitalPartner handed to match_partner
    cols,      \* the board item's column texts `partner` was parsed from
    result,    \* the dict match_partner returned
    partners,  \* main's list of partners
    matches,   \* the list find_matches returned
    calls,     \* how many times find_matches was called
    printed,   \* what print_matches wrote
    csv_file,  \* dob_permits.csv on disk
    dob_response, \* what the permits API answered to the last pull
    pulls,     \* how many times pull_new_permits ran
    selections, \* st.session_state.selections, one flag per displayed row
    board,     \* the names of the items on the leads board
    batch,     \* the locals of the push batch that is running
    push_log   \* the calls of push_to_monday, in order

matcherVars == <<pc, deal, partner, cols, result, partners, matches, calls, printed>>
pullVars == <<csv_file, dob_response, pulls>>
pushVars == <<selections, board, batch, push_log>>
vars == <<matcherVars, pullVars, pushVars>>

None == [none |-> TRUE]

\* os.path.exists(CSV_FILE) is false
NoFile == [exists |-> FALSE, has_job |-> FALSE, has_units |-> FALSE, rows |-> <<>>]

\* the states of the programs that are not running
MatcherIdle ==
    /\ pc = "start"
    /\ deal = None
    /\ partner = None
    /\ cols = None
    /\ result = None
    /\ partners = <<>>
    /\ matches = <<>>
    /\ calls = 0
    /\ printed = <<>>

PullIdle ==
    /\ csv_file = NoFile
    /\ dob_response = None
    /\ pulls = 0

PushIdle ==
    /\ selections = <<>>
    /\ board = {}
    /\ batch = None
    /\ push_log = <<>>

----------------------------------------------------------------------------
(* Strings *)

UpperChars == <<"A","B","C","D","E","F","G","H","I","J","K","L","M",
                "N","O","P","Q","R","S","T","U","V","W","X","Y","Z">>

LowerChars == <<"a","b","c","d","e","f","g","h","i","j","k","l","m",
                "n","o","p","q","r","s","t","u","v","w","x","y","z">>

\* str.lower() on one character: only the upper-case letters change
ToLower ==
    [c \in {UpperChars[i] : i \in 1..Len(UpperChars)} |->
        LowerChars[CHOOSE i \in 1..Len(UpperChars) : UpperChars[i] = c]]

LowerChar(c) == IF c \in DOMAIN ToLower THEN ToLower[c] ELSE c

\* str.lower()
Lower(s) == [i \in 1..Len(s) |-> LowerChar(s[i])]

\* needle in hay (Python's substring test; the empty string is in every string)
StrIn(needle, hay) ==
    \E k \in 0..(Len(hay) - Len(needle)) :
        \A i \in 1..Len(needle) : hay[k + i] = needle[i]

\* bool(x) of a list or a string
Truthy(s) == Len(s) > 0

National == <<"n","a","t","i","o","n","a","l">>

----------------------------------------------------------------------------
(* match_partner *)

Msg(crit, text) == [crit |-> crit, text |-> text]

\* score = 0; reasons = []; blockers = []
EmptyTally == [score |-> 0, reasons |-> <<>>, blockers |-> <<>>]

AddReason(t, points, m) ==
    [t EXCEPT !.score = @ + points, !.reasons = Append(@, m)]

AddBlocker(t, m) == [t EXCEPT !.blockers = Append(@, m)]

\* a bug: the maximum is tested by an `if` of its own, not by `elif`
SizeCheck_TwoIfs(d, p, t) ==
    LET below == p.min_deal_size > 0 /\ d.deal_size < p.min_deal_size
        above == p.max_deal_size > 0 /\ d.deal_size > p.max_deal_size
        t1 == IF below THEN AddBlocker(t, Msg("size", "below min")) ELSE t
    IN  IF above THEN AddBlocker(t1, Msg("size", "above max"))
        ELSE IF below THEN t1
        ELSE AddReason(t1, 20, Msg("size", "in range"))

\* Deal size check (blocker if outside range)
SizeCheck(d, p, t) ==
    IF p.min_deal_size > 0 /\ d.deal_size < p.min_deal_size
    THEN AddBlocker(t, Msg("size", "below min"))
    ELSE IF p.max_deal_size > 0 /\ d.deal_size > p.max_deal_size
    THEN AddBlocker(t, Msg("size", "above max"))
    ELSE AddReason(t, 20, Msg("size", "in range"))

\* a bug: containment is accepted in either direction, as for geographies
AnyContains_EitherWay(value, listed) ==
    \E i \in 1..Len(listed) :
        \/ StrIn(Lower(value), Lower(listed[i]))
        \/ StrIn(Lower(listed[i]), Lower(value))

\* any(value.lower() in x.lower() for x in listed)
AnyContains(value, listed) ==
    \E i \in 1..Len(listed) : StrIn(Lower(value), Lower(listed[i]))

\* a bug: the loan type weighs 20, as the property type does
LoanTypeCheck_Weight20(d, p, t) ==
    IF Truthy(p.loan_types)
    THEN IF AnyContains(d.loan_type, p.loan_types)
         THEN AddReason(t, 20, Msg("loan_type", "Does"))
         ELSE AddBlocker(t, Msg("loan_type", "Doesn't do"))
    ELSE t

\* Loan type check
LoanTypeCheck(d, p, t) ==
    IF Truthy(p.loan_types)
    THEN IF AnyContains(d.loan_type, p.loan_types)
         THEN AddReason(t, 25, Msg("loan_type", "Does"))
         ELSE AddBlocker(t, Msg("loan_type", "Doesn't do"))
    ELSE t

\* a bug: an empty list of property types matches nothing
PropertyTypeCheck_EmptyBlocks(d, p, t) ==
    IF AnyContains(d.property_type, p.property_types)
    THEN AddReason(t, 20, Msg("property_type", "Does"))
    ELSE AddBlocker(t, Msg("property_type", "Doesn't do"))

\* Property type check
PropertyTypeCheck(d, p, t) ==
    IF Truthy(p.property_types)
    THEN IF AnyContains(d.property_type, p.property_types)
         THEN AddReason(t, 20, Msg("property_type", "Does"))
         ELSE AddBlocker(t, Msg("property_type", "Doesn't do"))
    ELSE t

\* a bug: the location is never looked up inside the partner's geography
GeoMatch_GeoInLocationOnly(location, geographies) ==
    LET location_lower == Lower(location)
    IN  \E i \in 1..Len(geographies) :
            \/ StrIn(Lower(geographies[i]), location_lower)
            \/ Lower(geographies[i]) = National

\* geo_match
GeoMatch(location, geographies) ==
    LET location_lower == Lower(location)
    IN  \E i \in 1..Len(geographies) :
            \/ StrIn(Lower(geographies[i]), location_lower)
            \/ StrIn(location_lower, Lower(geographies[i]))
            \/ Lower(geographies[i]) = National

\* a bug: a partner that lists no geography is given the points of a match
GeographyCheck_EmptyScores(d, p, t) ==
    IF ~Truthy(p.geographies) \/ GeoMatch(d.location, p.geographies)
    THEN AddReason(t, 15, Msg("geography", "Covers"))
    ELSE AddBlocker(t, Msg("geography", "Doesn't cover"))

\* Geography check
GeographyCheck(d, p, t) ==
    IF Truthy(p.geographies)
    THEN IF GeoMatch(d.location, p.geographies)
         THEN AddReason(t, 15, Msg("geography", "Covers"))
         ELSE AddBlocker(t, Msg("geography", "Doesn't cover"))
    ELSE t

\* a bug: a target LTC equal to the partner's maximum is refused
LtcCheck_Strict(d, p, t) ==
    IF p.max_ltc > 0
    THEN IF d.target_ltc < p.max_ltc
         THEN AddReason(t, 20, Msg("ltc", "Can do"))
         ELSE AddBlocker(t, Msg("ltc", "exceeds max"))
    ELSE t

\* LTC check
LtcCheck(d, p, t) ==
    IF p.max_ltc > 0
    THEN IF d.target_ltc <= p.max_ltc
         THEN AddReason(t, 20, Msg("ltc", "Can do"))
         ELSE AddBlocker(t, Msg("ltc", "exceeds max"))
    ELSE t

\* a bug: the HIGH MATCH threshold is strict
MatchLevel_StrictHigh(t) ==
    IF Truthy(t.blockers) THEN "NO MATCH"
    ELSE IF t.score > 80 THEN "HIGH MATCH"
    ELSE IF t.score >= 50 THEN "PARTIAL MATCH"
    ELSE "LOW MATCH"

\* Determine match level
MatchLevel(t) ==
    IF Truthy(t.blockers) THEN "NO MATCH"
    ELSE IF t.score >= 80 THEN "HIGH MATCH"
    ELSE IF t.score >= 50 THEN "PARTIAL MATCH"
    ELSE "LOW MATCH"

\* a bug: the raw sum is returned although a blocker was recorded
FinalScore_KeepsSum(t) == t.score

\* the score returned: forced to 0 by any blocker
FinalScore(t) == IF Truthy(t.blockers) THEN 0 ELSE t.score

\* a bug: the checks stop at the first blocker
match_partner_ShortCircuit(d, p) ==
    LET t1 == SizeCheck(d, p, EmptyTally)
        t2 == IF Truthy(t1.blockers) THEN t1 ELSE LoanTypeCheck(d, p, t1)
        t3 == IF Truthy(t2.blockers) THEN t2 ELSE PropertyTypeCheck(d, p, t2)
        t4 == IF Truthy(t3.blockers) THEN t3 ELSE GeographyCheck(d, p, t3)
        t  == IF Truthy(t4.blockers) THEN t4 ELSE LtcCheck(d, p, t4)
    IN  [partner        |-> p.name,
         score          |-> FinalScore(t),
         match_level    |-> MatchLevel(t),
         reasons        |-> t.reasons,
         blockers       |-> t.blockers,
         pricing        |-> p.typical_spread,
         leverage_point |-> p.leverage_point,
         pricing_tier   |-> p.pricing_tier,
         contact        |-> p.primary_contact,
         notes          |-> p.program_notes]

match_partner(d, p) ==
    LET t == LtcCheck(d, p,
                 GeographyCheck(d, p,
                     PropertyTypeCheck(d, p,
                         LoanTypeCheck(d, p,
                             SizeCheck(d, p, EmptyTally)))))
    IN  [partner        |-> p.name,
         score          |-> FinalScore(t),
         match_level    |-> MatchLevel(t),
         reasons        |-> t.reasons,
         blockers       |-> t.blockers,
         pricing        |-> p.typical_spread,
         leverage_point |-> p.leverage_point,
         pricing_tier   |-> p.pricing_tier,
         contact        |-> p.primary_contact,
         notes          |-> p.program_notes]

----------------------------------------------------------------------------
(* Deal and CapitalPartner values *)

\* A partner's name and item_id are atoms; every other text is a sequence of
\* characters, as the texts parsed from the board are.

Deal(name, deal_size, property_type, location, loan_type, target_ltc) ==
    [name |-> name, deal_size |-> deal_size, property_type |-> property_type,
     location |-> location, loan_type |-> loan_type, target_ltc |-> target_ltc]

CapitalPartner(name, item_id, min_deal_size, max_deal_size, loan_types, property_types, geographies, max_ltc, max_ltv, typical_spread, leverage_point, pricing_tier, recourse, program_notes, primary_contact) ==
    [name |-> name, item_id |-> item_id,
     min_deal_size |-> min_deal_size, max_deal_size |-> max_deal_size,
     loan_types |-> loan_types, property_types |-> property_types,
     geographies |-> geographies, max_ltc |-> max_ltc, max_ltv |-> max_ltv,
     typical_spread |-> typical_spread, leverage_point |-> leverage_point,
     pricing_tier |-> pricing_tier, recourse |-> recourse,
     program_notes |-> program_notes, primary_contact |-> primary_contact]

Construction == <<"C","o","n","s","t","r","u","c","t","i","o","n">>
Bridge       == <<"B","r","i","d","g","e">>
Mezz         == <<"M","e","z","z">>
PrefEquity   == <<"P","r","e","f"," ","E","q","u","i","t","y">>
Multifamily  == <<"M","u","l","t","i","f","a","m","i","l","y">>
MixedUse     == <<"M","i","x","e","d","-","U","s","e">>
Office       == <<"O","f","f","i","c","e">>
Industrial   == <<"I","n","d","u","s","t","r","i","a","l">>
NYC          == <<"N","Y","C">>
TriState     == <<"T","r","i","-","S","t","a","t","e">>
NationalGeo  == <<"N","a","t","i","o","n","a","l">>

\* the Deal main builds when no argument is given
DefaultDeal == Deal("Test Deal", 100000000, Multifamily, NYC, Construction, 75)

demo_partners ==
    << CapitalPartner("Oaknorth", "demo1", 20000000, 150000000,
           <<Construction, Bridge>>, <<Multifamily, MixedUse, Office>>,
           <<NYC, TriState, NationalGeo>>, 80, 65,
           <<"S","+","4","5","0","-","5","5","0">>, <<"H","i","g","h"," ","(",
            "7","5","%","+",")">>, <<"P","r","e","m","i","u","m">>, <<"N","o",
            "n","-","R","e","c","o","u","r","s","e">>,
           
           <<"W","i","l","l"," ","g","o"," ","h","i","g","h"," ","l","e","v",
            "e","r","a","g","e"," ","b","u","t"," ","p","r","i","c","e","s",
            " ","w","i","d","e","."," ","G","o","o","d"," ","f","o","r"," ",
            "d","e","a","l","s"," ","n","e","e","d","i","n","g"," ","m","a",
            "x"," ","p","r","o","c","e","e","d","s","."," ","F","a","s","t",
            " ","e","x","e","c","u","t","i","o","n",".">>, <<"M","a","x"," ",
            "S","a","i","d","m","a","n">>),
       CapitalPartner("Mesa West", "demo2", 50000000, 300000000,
           <<Construction, Bridge>>, <<Multifamily, Office, Industrial>>,
           <<NationalGeo>>, 70, 60,
           <<"S","+","3","5","0","-","4","2","5">>, <<"M","i","d"," ","(","6",
            "0","-","7","5","%",")">>, <<"M","a","r","k","e","t">>, <<"N","o",
            "n","-","R","e","c","o","u","r","s","e">>,
           
           <<"B","a","l","a","n","c","e"," ","s","h","e","e","t"," ","l","e",
            "n","d","e","r","."," ","C","o","m","p","e","t","i","t","i","v",
            "e"," ","p","r","i","c","i","n","g","."," ","C","o","n","s","e",
            "r","v","a","t","i","v","e"," ","o","n"," ","b","a","s","i","s",
            ".">>, <<>>),
       CapitalPartner("Bawag", "demo3", 30000000, 200000000,
           <<Construction>>, <<Multifamily, MixedUse>>,
           <<NYC, TriState>>, 65, 55,
           <<"S","+","2","7","5","-","3","5","0">>, <<"L","o","w"," ","(","<",
            "=","6","0","%",")">>, <<"A","g","g","r","e","s","s","i","v","e"
            >>, <<"N","o","n","-","R","e","c","o","u","r","s","e">>,
           
           <<"E","u","r","o","p","e","a","n"," ","b","a","n","k","."," ","V",
            "e","r","y"," ","a","g","g","r","e","s","s","i","v","e"," ","p",
            "r","i","c","i","n","g"," ","b","u","t"," ","l","o","w","e","r",
            " ","l","e","v","e","r","a","g","e","."," ","B","e","s","t"," ",
            "f","o","r"," ","w","e","l","l","-","c","a","p","i","t","a","l",
            "i","z","e","d"," ","s","p","o","n","s","o","r","s",".">>, <<"E",
            "r","i","c"," ","K","o","e","f","o","e","d">>),
       CapitalPartner("Torchlight", "demo4", 25000000, 150000000,
           <<Mezz, PrefEquity>>, <<Multifamily, Office, MixedUse>>,
           <<NationalGeo>>, 85, 75,
           <<"1","2","-","1","5","%">>, <<"H","i","g","h"," ","(","7","5","%",
            "+",")">>, <<"M","a","r","k","e","t">>, <<"N","o","n","-","R","e",
            "c","o","u","r","s","e">>,
           
           <<"M","e","z","z","/","p","r","e","f"," ","e","q","u","i","t","y",
            " ","p","r","o","v","i","d","e","r","."," ","G","o","o","d"," ",
            "f","o","r"," ","g","a","p"," ","c","a","p","i","t","a","l",".",
            " ","Q","u","i","c","k"," ","d","e","c","i","s","i","o","n","s",
            ".">>, <<"S","y","d","n","e","y"," ","M","a","s">>),
       CapitalPartner("MF1", "demo5", 30000000, 100000000,
           <<Bridge>>, <<Multifamily>>,
           <<NationalGeo>>, 75, 70,
           <<"S","+","3","7","5","-","4","5","0">>, <<"M","i","d"," ","(","6",
            "0","-","7","5","%",")">>, <<"M","a","r","k","e","t">>, <<"N","o",
            "n","-","R","e","c","o","u","r","s","e">>,
           
           <<"M","u","l","t","i","f","a","m","i","l","y"," ","s","p","e","c",
            "i","a","l","i","s","t","."," ","B","r","i","d","g","e"," ","o",
            "n","l","y",","," ","n","o"," ","c","o","n","s","t","r","u","c",
            "t","i","o","n",".">>, <<"S","e","a","n"," ","C","u","r","t","i",
            "n">>),
       CapitalPartner("HPS", "demo6", 50000000, 500000000,
           <<Construction, Mezz>>, <<Multifamily, Office, MixedUse, Industrial
            >>,
           <<NationalGeo>>, 75, 65,
           <<"S","+","4","0","0","-","5","0","0">>, <<"M","i","d"," ","(","6",
            "0","-","7","5","%",")">>, <<"P","r","e","m","i","u","m">>, <<"N",
            "o","n","-","R","e","c","o","u","r","s","e">>,
           
           <<"L","a","r","g","e"," ","c","r","e","d","i","t"," ","f","u","n",
            "d","."," ","C","a","n"," ","d","o"," ","w","h","o","l","e"," ",
            "l","o","a","n"," ","o","r"," ","m","e","z","z","."," ","P","r",
            "e","m","i","u","m"," ","p","r","i","c","i","n","g"," ","b","u",
            "t"," ","r","e","l","i","a","b","l","e"," ","e","x","e","c","u",
            "t","i","o","n",".">>, <<>>) >>

----------------------------------------------------------------------------
(* get_capital_partners: the board's items parsed into partners *)

\* str.replace(ch, "") for a one-character ch
RECURSIVE Remove(_, _)
Remove(s, ch) ==
    IF s = <<>> THEN <<>>
    ELSE IF Head(s) = ch THEN Remove(Tail(s), ch)
    ELSE <<Head(s)>> \o Remove(Tail(s), ch)

Digits == <<"0","1","2","3","4","5","6","7","8","9">>

DigitValue(c) == (CHOOSE i \in 1..Len(Digits) : Digits[i] = c) - 1

\* float(s) of a string of decimal digits
RECURSIVE ToNumber(_)
ToNumber(s) ==
    IF Len(s) = 1 THEN DigitValue(s[1])
    ELSE 10 * ToNumber(SubSeq(s, 1, Len(s) - 1)) + DigitValue(s[Len(s)])

\* float(text or default)
FloatOr(text, default) == IF Truthy(text) THEN ToNumber(text) ELSE default

\* str.strip() of blanks
RECURSIVE Strip(_)
Strip(s) ==
    IF s = <<>> THEN <<>>
    ELSE IF Head(s) = " " THEN Strip(Tail(s))
    ELSE IF s[Len(s)] = " " THEN Strip(SubSeq(s, 1, Len(s) - 1))
    ELSE s

\* val.split(", ")
RECURSIVE SplitCommaSpace(_, _)
SplitCommaSpace(s, word) ==
    IF s = <<>> THEN <<word>>
    ELSE IF Len(s) >= 2 /\ s[1] = "," /\ s[2] = " "
    THEN <<word>> \o SplitCommaSpace(SubSeq(s, 3, Len(s)), <<>>)
    ELSE SplitCommaSpace(Tail(s), Append(word, Head(s)))

\* [str(x).strip() for x in parsed if x]
RECURSIVE StripEach(_)
StripEach(words) ==
    IF words = <<>> THEN <<>>
    ELSE IF Truthy(Head(words))
    THEN <<Strip(Head(words))>> \o StripEach(Tail(words))
    ELSE StripEach(Tail(words))

\* parse_multi, for a text that is not a JSON list (the board's texts of the
\* model never start with "[")
parse_multi(val) ==
    IF ~Truthy(val) THEN <<>> ELSE StripEach(SplitCommaSpace(val, <<>>))

\* cols: column id -> text, built from the item's column_values
\* (cols[col["id"]] = col["text"] or "")
ColsOf(item) ==
    LET cv == item.column_values
    IN  [id \in {cv[i].id : i \in 1..Len(cv)} |->
            LET last == CHOOSE i \in 1..Len(cv) :
                            /\ cv[i].id = id
                            /\ \A j \in (i + 1)..Len(cv) : cv[j].id # id
            IN  IF cv[last].is_null THEN <<>> ELSE cv[last].text]

\* cols.get(id, default)
Get(c, id, default) == IF id \in DOMAIN c THEN c[id] ELSE default

\* account_type = cols.get("type", "") or cols.get("dropdown", "")
AccountType(c) ==
    IF Truthy(Get(c, "type", <<>>)) THEN Get(c, "type", <<>>)
    ELSE Get(c, "dropdown", <<>>)

\* the item is kept: a lender/LP/investor, or it has max_ltc or numbers filled in
IsLendingAccount(c) ==
    \/ StrIn(<<"l","e","n","d","e","r">>, Lower(AccountType(c)))
    \/ StrIn(<<"l","p">>, Lower(AccountType(c)))
    \/ StrIn(<<"i","n","v","e","s","t","o","r">>, Lower(AccountType(c)))
    \/ Truthy(Get(c, "max_ltc", <<>>))
    \/ Truthy(Get(c, "numbers", <<>>))

\* the text of a string column: cols.get(id, "")
Text(c, id) == Get(c, id, <<>>)

\* max_deal_size=float(cols.get("max_deal_size", "0").replace(",", "").replace("$", "") or 999999999)
ParseMaxDealSize(c) ==
    FloatOr(Remove(Remove(Get(c, "max_deal_size", <<"0">>), ","), "$"), 999999999)

\* min_deal_size=float(cols.get("min_deal_size", "0").replace(",", "").replace("$", "") or 0)
ParseMinDealSize(c) ==
    FloatOr(Remove(Remove(Get(c, "min_deal_size", <<"0">>), ","), "$"), 0)

\* float(cols.get(id, "0").replace("%", "") or 0)
ParsePercent(c, id) == FloatOr(Remove(Get(c, id, <<"0">>), "%"), 0)

ParsePartner(item) ==
    LET c == ColsOf(item)
    IN  CapitalPartner(item.name, item.id,
            ParseMinDealSize(c), ParseMaxDealSize(c),
            parse_multi(Text(c, "loan_types")),
            parse_multi(Text(c, "property_types")),
            parse_multi(Text(c, "geographies")),
            ParsePercent(c, "max_ltc"), ParsePercent(c, "max_ltv"),
            Text(c, "typical_spread"), Text(c, "leverage_point"),
            Text(c, "pricing_tier"), Text(c, "recourse"),
            Text(c, "program_notes"), Text(c, "primary_contact"))

\* the loop over the board's items
RECURSIVE ParseItems(_)
ParseItems(items) ==
    IF items = <<>> THEN <<>>
    ELSE IF IsLendingAccount(ColsOf(Head(items)))
    THEN <<ParsePartner(Head(items))>> \o ParseItems(Tail(items))
    ELSE ParseItems(Tail(items))

\* what the CRM answers: whether an Accounts board was found, whether the
\* query returned errors, and the board's items
Response(board_found, errors, items) ==
    [board_found |-> board_found, errors |-> errors, items |-> items]

get_capital_partners(response) ==
    IF ~response.board_found THEN <<>>
    ELSE IF response.errors THEN <<>>
    ELSE ParseItems(response.items)

\* find_matches: the loop calling match_partner for each partner
RECURSIVE MatchAll(_, _)
MatchAll(d, ps) ==
    IF ps = <<>> THEN <<>>
    ELSE <<match_partner(d, Head(ps))>> \o MatchAll(d, Tail(ps))

\* a bug: a result is put before the results of equal score, as sorting
\* ascending and reversing does
InsertByScore_BeforeTies(sorted, m) ==
    LET k == Cardinality({i \in 1..Len(sorted) : sorted[i].score > m.score})
    IN  SubSeq(sorted, 1, k) \o <<m>> \o SubSeq(sorted, k + 1, Len(sorted))

\* one step of the stable sort: m goes after every result whose score is at
\* least its own
InsertByScore(sorted, m) ==
    LET k == Cardinality({i \in 1..Len(sorted) : sorted[i].score >= m.score})
    IN  SubSeq(sorted, 1, k) \o <<m>> \o SubSeq(sorted, k + 1, Len(sorted))

\* matches.sort(key=lambda x: x["score"], reverse=True): a stable sort
RECURSIVE SortByScoreDesc(_)
SortByScoreDesc(ms) ==
    IF ms = <<>> THEN <<>>
    ELSE InsertByScore(SortByScoreDesc(SubSeq(ms, 1, Len(ms) - 1)), ms[Len(ms)])

find_matches(d, ps) == SortByScoreDesc(MatchAll(d, ps))

\* a bug: the loop takes the partners out of the caller's list
CallFindMatches_ConsumesList(d, ps) ==
    [returned |-> find_matches(d, ps), deal |-> d, partners |-> <<>>]

\* a call of find_matches: the list it returns, and the deal and the list of
\* partners as the call leaves them (it reads both and writes neither: the
\* results go to a new list, which is the one sorted)
CallFindMatches(d, ps) ==
    [returned |-> find_matches(d, ps), deal |-> d, partners |-> ps]

\* the lines print_matches writes for one result under a heading
Printed(heading, m, lines) ==
    [heading |-> heading, partner |-> m.partner, score |-> m.score,
     lines |-> lines]

\* [m for m in matches if m["match_level"] == level]
OfLevel(ms, level) == SelectSeq(ms, LAMBDA m : m.match_level = level)

\* m['blockers'][:2]
FirstTwo(s) == SubSeq(s, 1, IF Len(s) < 2 THEN Len(s) ELSE 2)

\* the blocks printed under one heading, one for each result of the group
RECURSIVE PrintGroup(_, _)
PrintGroup(heading, group) ==
    IF group = <<>> THEN <<>>
    ELSE LET m == Head(group)
             lines == IF heading = "HIGH MATCH" THEN m.reasons
                      ELSE IF heading = "PARTIAL MATCH"
                      THEN m.reasons \o m.blockers
                      ELSE FirstTwo(m.blockers)
         IN  <<Printed(heading, m, lines)>> \o PrintGroup(heading, Tail(group))

\* print_matches: the results grouped by match level, each group under its
\* heading (the banner with the deal's data is left out)
print_matches(d, ms) ==
       PrintGroup("HIGH MATCH", OfLevel(ms, "HIGH MATCH"))
    \o PrintGroup("PARTIAL MATCH", OfLevel(ms, "PARTIAL MATCH"))
    \o PrintGroup("NO MATCH", OfLevel(ms, "NO MATCH"))

----------------------------------------------------------------------------
(* The inputs of the model *)

DealSizes      == {10000000, 50000000, 100000000, 1000000000}
DealLoanTypes  == {<<>>, <<"b","r","i","d","g","e">>, <<"B","r","i","d","g","e"," ","L","o","a","n">>}
DealPropTypes  == {<<"m","u","l","t","i","f","a","m","i","l","y">>, <<"O","f","f","i","c","e"," ","S","p","a","c","e">>}
DealLocations  == {<<"n","y">>, <<"Q","u","e","e","n","s"," ","N","Y","C">>, <<"L","A">>}
DealLtcs       == {65, 75}

Deals ==
    {Deal("Deal", sz, pt, loc, lt, ltc) :
        sz \in DealSizes, pt \in DealPropTypes, loc \in DealLocations,
        lt \in DealLoanTypes, ltc \in DealLtcs}
    \cup {DefaultDeal}

MinSizes       == {0, 50000000, 200000000}
MaxSizes       == {0, 50000000, 150000000, 999999999}
LoanTypeLists  == {<<>>, <<Construction, Bridge>>, <<Mezz>>}
PropTypeLists  == {<<>>, <<Multifamily, Office>>, <<Industrial>>}
GeoLists       == {<<>>, <<NYC, TriState>>, <<<<"N","A","T","I","O","N","A","L">>>>, <<<<"B","r","o","n","x"," ","N","Y">>>>}
MaxLtcs        == {0, 65, 80}

Partners ==
    {CapitalPartner("Partner", "p", mn, mx, lts, pts, gs, ltc, 0,
                    <<>>, <<>>, <<>>, <<>>, <<>>, <<>>) :
        mn \in MinSizes, mx \in MaxSizes, lts \in LoanTypeLists,
        pts \in PropTypeLists, gs \in GeoLists, ltc \in MaxLtcs}
    \cup {demo_partners[i] : i \in 1..Len(demo_partners)}

\* one column of a board item: its id and its text (null when is_null)
Column(id, text) == [id |-> id, text |-> text, is_null |-> FALSE]

NullColumn(id) == [id |-> id, text |-> <<>>, is_null |-> TRUE]

\* the ways a board item can carry its maximum deal size: no such column,
\* a null text, an empty text, a zero, an amount
MaxSizeColumns ==
    {<<>>, <<NullColumn("max_deal_size")>>,
     <<Column("max_deal_size", <<>>)>>,
     <<Column("max_deal_size", <<"0">>)>>,
     <<Column("max_deal_size", <<"1","5","0",",","0","0","0",",","0","0","0">>)>>,
     <<Column("max_deal_size", <<"$","5","0",",","0","0","0",",","0","0","0">>)>>}

TypeTexts      == {<<"L","e","n","d","e","r">>, <<"B","r","o","k","e","r">>, <<"L","P"," ","/"," ","I","n","v","e","s","t","o","r">>}
MinSizeTexts   == {<<>>, <<"$","2","0",",","0","0","0",",","0","0","0">>}
LoanTypeTexts  == {<<>>, <<"C","o","n","s","t","r","u","c","t","i","o","n",","," ","B","r","i","d","g","e">>}
GeoTexts       == {<<>>, <<"N","Y","C",","," "," ","T","r","i","-","S","t","a","t","e">>}
MaxLtcTexts    == {<<>>, <<"6","5","%">>}

BoardItem(name, type, mn, mxcol, lts, gs, ltc) ==
    [id |-> name, name |-> name,
     column_values |->
        << Column("type", type), Column("min_deal_size", mn) >> \o mxcol \o
        << Column("loan_types", lts), Column("geographies", gs),
           Column("max_ltc", ltc) >>]

BoardItems ==
    {BoardItem("Item", ty, mn, mxcol, lts, gs, ltc) :
        ty \in TypeTexts, mn \in MinSizeTexts, mxcol \in MaxSizeColumns,
        lts \in LoanTypeTexts, gs \in GeoTexts, ltc \in MaxLtcTexts}

----------------------------------------------------------------------------
(* ScoreSpec: match_partner applied to one deal and one partner *)

InitScore ==
    /\ pc = "start"
    /\ deal \in Deals
    /\ partner = None
    /\ cols = None
    /\ result = None
    /\ partners = <<>>
    /\ matches = <<>>
    /\ calls = 0
    /\ printed = <<>>
    /\ PullIdle
    /\ PushIdle

\* the caller builds the partner itself, as demo_partners does
NewPartner ==
    /\ pc = "start"
    /\ \E p \in Partners : partner' = p
    /\ pc' = "input"
    /\ UNCHANGED <<deal, cols, result, partners, matches, calls, printed, pullVars, pushVars>>

\* the caller takes the partner get_capital_partners parsed from a board item
FetchPartner ==
    /\ pc = "start"
    /\ \E item \in BoardItems :
          LET fetched == get_capital_partners(Response(TRUE, FALSE, <<item>>))
          IN  /\ fetched # <<>>
              /\ partner' = fetched[1]
              /\ cols' = ColsOf(item)
    /\ pc' = "input"
    /\ UNCHANGED <<deal, result, partners, matches, calls, printed, pullVars, pushVars>>

\* result = match_partner(deal, partner)
MatchPartner ==
    /\ pc = "input"
    /\ result' = match_partner(deal, partner)
    /\ pc' = "scored"
    /\ UNCHANGED <<deal, partner, cols, partners, matches, calls, printed, pullVars, pushVars>>

NextScore == NewPartner \/ FetchPartner \/ MatchPartner

ScoreSpec == InitScore /\ [][NextScore]_vars

----------------------------------------------------------------------------
(* What the claims say of a result, stated from the deal and the partner *)

Scored == pc = "scored"

\* the messages of a list that one criterion appended
OfCrit(msgs, crit) == SelectSeq(msgs, LAMBDA m : m.crit = crit)

HasMsg(msgs, crit, text) ==
    \E i \in 1..Len(msgs) : msgs[i] = Msg(crit, text)

BelowMin(d, p) == p.min_deal_size > 0 /\ d.deal_size < p.min_deal_size
AboveMax(d, p) == p.max_deal_size > 0 /\ d.deal_size > p.max_deal_size
SizePasses(d, p) == ~BelowMin(d, p) /\ ~AboveMax(d, p)

\* a is, ignoring case, a substring of b
InIgnoringCase(a, b) == StrIn(Lower(a), Lower(b))

LoanApplies(p) == p.loan_types # <<>>
LoanPasses(d, p) ==
    \E i \in 1..Len(p.loan_types) : InIgnoringCase(d.loan_type, p.loan_types[i])

PropApplies(p) == p.property_types # <<>>
PropPasses(d, p) ==
    \E i \in 1..Len(p.property_types) :
        InIgnoringCase(d.property_type, p.property_types[i])

GeoApplies(p) == p.geographies # <<>>
GeoPasses(d, p) ==
    \E i \in 1..Len(p.geographies) :
        \/ InIgnoringCase(p.geographies[i], d.location)
        \/ InIgnoringCase(d.location, p.geographies[i])
        \/ Lower(p.geographies[i]) = <<"n","a","t","i","o","n","a","l">>

LtcApplies(p) == p.max_ltc > 0
LtcPasses(d, p) == d.target_ltc <= p.max_ltc

\* the number of criteria match_partner has to evaluate for a partner
Applicable(p) ==
    1 + (IF LoanApplies(p) THEN 1 ELSE 0) + (IF PropApplies(p) THEN 1 ELSE 0)
      + (IF GeoApplies(p) THEN 1 ELSE 0) + (IF LtcApplies(p) THEN 1 ELSE 0)

\* the points of the criteria that apply and pass
Points(d, p) ==
      (IF SizePasses(d, p) THEN 20 ELSE 0)
    + (IF LoanApplies(p) /\ LoanPasses(d, p) THEN 25 ELSE 0)
    + (IF PropApplies(p) /\ PropPasses(d, p) THEN 20 ELSE 0)
    + (IF GeoApplies(p) /\ GeoPasses(d, p) THEN 15 ELSE 0)
    + (IF LtcApplies(p) /\ LtcPasses(d, p) THEN 20 ELSE 0)

AllFiveApply(p) ==
    LoanApplies(p) /\ PropApplies(p) /\ GeoApplies(p) /\ LtcApplies(p)

AllFivePass(d, p) ==
    /\ SizePasses(d, p) /\ LoanPasses(d, p) /\ PropPasses(d, p)
    /\ GeoPasses(d, p) /\ LtcPasses(d, p)

Oaknorth == demo_partners[1]
Bawag    == demo_partners[3]

\* C1: a result with a non-empty blockers list has score 0 and level
\* NO MATCH, whatever criteria passed before or after the blocker.
C1_BlockerForcesZero ==
    Scored /\ result.blockers # <<>> =>
        result.score = 0 /\ result.match_level = "NO MATCH"

\* a blocked result whose size criterion (before the blocker) and LTC
\* criterion (after it) both passed and added points
C1_Witness ==
    /\ Scored
    /\ Len(result.blockers) = 1
    /\ result.blockers[1].crit = "property_type"
    /\ HasMsg(result.reasons, "size", "in range")
    /\ HasMsg(result.reasons, "ltc", "Can do")
    /\ Points(deal, partner) >= 60

\* C2: the score is in 0..100, and the level is NO MATCH exactly when there
\* is a blocker, otherwise HIGH MATCH exactly when score >= 80, PARTIAL
\* MATCH exactly when 50 <= score < 80, LOW MATCH exactly when score < 50.
C2_ScoreLevelConsistent ==
    Scored =>
        /\ result.score \in 0..100
        /\ result.match_level = "NO MATCH" <=> result.blockers # <<>>
        /\ result.blockers = <<>> =>
              /\ result.match_level = "HIGH MATCH" <=> result.score >= 80
              /\ result.match_level = "PARTIAL MATCH" <=>
                     result.score >= 50 /\ result.score < 80
              /\ result.match_level = "LOW MATCH" <=> result.score < 50

\* a result on the HIGH MATCH threshold: every criterion but LTC applies
\* and passes
C2_Witness ==
    /\ Scored
    /\ result.score = 80
    /\ result.match_level = "HIGH MATCH"
    /\ result.blockers = <<>>

\* C3: when all five criteria apply and pass, the result has score 100,
\* level HIGH MATCH, no blocker and exactly five reasons.
C3_PerfectFit ==
    Scored /\ AllFiveApply(partner) /\ AllFivePass(deal, partner) =>
        /\ result.score = 100
        /\ result.match_level = "HIGH MATCH"
        /\ result.blockers = <<>>
        /\ Len(result.reasons) = 5

\* the example: the default deal (100M Multifamily NYC Construction, 75%
\* LTC) scored against Oaknorth
C3_Witness ==
    /\ Scored
    /\ deal = DefaultDeal
    /\ partner = Oaknorth
    /\ AllFiveApply(partner) /\ AllFivePass(deal, partner)
    /\ result.score = 100

\* C4: a partner with no loan types, property types or geographies and
\* max_ltc 0, against a deal whose size is in the partner's range, gets
\* score 20, level LOW MATCH, exactly one reason and no blocker.
C4_UnrestrictedPartner ==
    /\ Scored
    /\ partner.loan_types = <<>> /\ partner.property_types = <<>>
    /\ partner.geographies = <<>> /\ partner.max_ltc = 0
    /\ SizePasses(deal, partner)
    => /\ result.score = 20
       /\ result.match_level = "LOW MATCH"
       /\ Len(result.reasons) = 1
       /\ result.blockers = <<>>

\* such a partner with a real range (50M to 150M) and a 100M deal
C4_Witness ==
    /\ Scored
    /\ partner.loan_types = <<>> /\ partner.property_types = <<>>
    /\ partner.geographies = <<>> /\ partner.max_ltc = 0
    /\ partner.min_deal_size = 50000000 /\ partner.max_deal_size = 150000000
    /\ deal.deal_size = 100000000
    /\ result.score = 20

\* C5: every applicable criterion is evaluated, also after a blocker: the
\* reasons and blockers together number the applicable criteria, each
\* applicable criterion has exactly one message and a skipped one none; the
\* default deal against Bawag gives one blocker and four reasons.
C5_NoShortCircuit ==
    Scored =>
        LET all == result.reasons \o result.blockers
            one(applies, crit) ==
                Len(OfCrit(all, crit)) = (IF applies THEN 1 ELSE 0)
        IN  /\ Len(all) = Applicable(partner)
            /\ one(TRUE, "size")
            /\ one(LoanApplies(partner), "loan_type")
            /\ one(PropApplies(partner), "property_type")
            /\ one(GeoApplies(partner), "geography")
            /\ one(LtcApplies(partner), "ltc")
            /\ deal = DefaultDeal /\ partner = Bawag =>
                  Len(result.blockers) = 1 /\ Len(result.reasons) = 4

\* a size blocker followed by four criteria that were still evaluated, two
\* of them failing too
C5_Witness ==
    /\ Scored
    /\ AllFiveApply(partner)
    /\ Len(result.blockers) = 3
    /\ result.blockers[1].crit = "size"
    /\ Len(result.reasons) = 2

\* C6: the deal-size criterion gives exactly one outcome: a "below min"
\* blocker when min_deal_size > 0 and deal_size < min_deal_size, otherwise
\* an "above max" blocker when max_deal_size > 0 and deal_size >
\* max_deal_size, otherwise 20 points and an "in range" reason; never a
\* blocker and a reason, never two blockers, also when min > max.
C6_SizeOneOutcome ==
    Scored =>
        LET sizeReasons  == OfCrit(result.reasons, "size")
            sizeBlockers == OfCrit(result.blockers, "size")
        IN  /\ Len(sizeReasons) + Len(sizeBlockers) = 1
            /\ BelowMin(deal, partner) =>
                  sizeBlockers = <<Msg("size", "below min")>>
            /\ ~BelowMin(deal, partner) /\ AboveMax(deal, partner) =>
                  sizeBlockers = <<Msg("size", "above max")>>
            /\ SizePasses(deal, partner) =>
                  /\ sizeReasons = <<Msg("size", "in range")>>
                  /\ result.blockers = <<>> =>
                        result.score = Points(deal, partner)
                  /\ Points(deal, partner) >= 20
            /\ deal.deal_size = 10000000 /\ partner.min_deal_size = 50000000
                  => /\ sizeBlockers = <<Msg("size", "below min")>>
                     /\ sizeReasons = <<>>

\* a partner whose minimum exceeds its maximum, and a deal below the one
\* and above the other
C6_Witness ==
    /\ Scored
    /\ partner.min_deal_size > partner.max_deal_size
    /\ BelowMin(deal, partner) /\ AboveMax(deal, partner)
    /\ OfCrit(result.blockers, "size") = <<Msg("size", "below min")>>

\* the board item the partner was parsed from has no maximum deal size, an
\* empty one or a zero
MaxMissingOrZero ==
    /\ DOMAIN cols # DOMAIN None
    /\ \/ "max_deal_size" \notin DOMAIN cols
       \/ cols["max_deal_size"] = <<>>
       \/ cols["max_deal_size"] = <<"0">>

\* C7: a partner whose maximum deal size is missing or zero is unbounded
\* above: whether it reaches match_partner as 0 or as the 999,999,999 that
\* get_capital_partners puts in for an empty field, no deal gets an "above
\* max" blocker.
C7_MissingMaxUnbounded ==
    Scored /\ (MaxMissingOrZero \/ partner.max_deal_size = 0) =>
        ~HasMsg(result.blockers, "size", "above max")

\* C9: with geographies listed, the geography criterion passes (15 points
\* and one reason) exactly when some listed geography, ignoring case, is
\* contained in the deal's location, contains it, or is "national";
\* otherwise it records one blocker.  With none listed it adds nothing.
C9_GeographyRule ==
    Scored =>
        LET geoReasons  == OfCrit(result.reasons, "geography")
            geoBlockers == OfCrit(result.blockers, "geography")
        IN  /\ ~GeoApplies(partner) => geoReasons = <<>> /\ geoBlockers = <<>>
            /\ GeoApplies(partner) /\ GeoPasses(deal, partner) =>
                  /\ geoReasons = <<Msg("geography", "Covers")>>
                  /\ geoBlockers = <<>>
            /\ GeoApplies(partner) /\ ~GeoPasses(deal, partner) =>
                  /\ geoReasons = <<>>
                  /\ geoBlockers = <<Msg("geography", "Doesn't cover")>>
            /\ result.blockers = <<>> => result.score = Points(deal, partner)

\* a deal in "ny" covered only because "ny" is contained in the partner's
\* "NYC": no listed geography is contained in the location or is national
C9_Witness ==
    /\ Scored
    /\ deal.location = <<"n","y">>
    /\ partner.geographies = <<NYC, TriState>>
    /\ HasMsg(result.reasons, "geography", "Covers")
    /\ result.score = 100

\* C10: with a non-empty list, the loan-type criterion (25 points) and the
\* property-type criterion (20 points) pass exactly when the deal's value
\* is, ignoring case, a substring of a listed value (not the other way
\* round); a pass adds the points and one reason, a failure one blocker,
\* an empty list neither.
C10_LoanAndPropertyRule ==
    Scored =>
        LET rule(applies, passes, crit) ==
                LET rs == OfCrit(result.reasons, crit)
                    bs == OfCrit(result.blockers, crit)
                IN  /\ ~applies => rs = <<>> /\ bs = <<>>
                    /\ applies /\ passes =>
                          rs = <<Msg(crit, "Does")>> /\ bs = <<>>
                    /\ applies /\ ~passes =>
                          rs = <<>> /\ bs = <<Msg(crit, "Doesn't do")>>
        IN  /\ rule(LoanApplies(partner), LoanPasses(deal, partner), "loan_type")
            /\ rule(PropApplies(partner), PropPasses(deal, partner),
                    "property_type")
            /\ result.blockers = <<>> => result.score = Points(deal, partner)

\* a "Bridge Loan" deal against a partner listing "Bridge": the listed value
\* is a substring of the deal's, which does not count
C10_Witness ==
    /\ Scored
    /\ deal.loan_type = <<"B","r","i","d","g","e"," ","L","o","a","n">>
    /\ partner.loan_types = <<Construction, Bridge>>
    /\ HasMsg(result.blockers, "loan_type", "Doesn't do")
    /\ deal.property_type = <<"m","u","l","t","i","f","a","m","i","l","y">>
    /\ HasMsg(result.reasons, "property_type", "Does")

\* C11: the LTC criterion is evaluated only when max_ltc > 0; it then
\* passes (20 points and one reason) exactly when target_ltc <= max_ltc,
\* the boundary included, and otherwise records one blocker.  With max_ltc
\* 0 there is no LTC reason or blocker, whatever the target.
C11_LtcRule ==
    Scored =>
        LET ltcReasons  == OfCrit(result.reasons, "ltc")
            ltcBlockers == OfCrit(result.blockers, "ltc")
        IN  /\ partner.max_ltc = 0 => ltcReasons = <<>> /\ ltcBlockers = <<>>
            /\ partner.max_ltc > 0 /\ deal.target_ltc <= partner.max_ltc =>
                  /\ ltcReasons = <<Msg("ltc", "Can do")>>
                  /\ ltcBlockers = <<>>
            /\ partner.max_ltc > 0 /\ deal.target_ltc > partner.max_ltc =>
                  /\ ltcReasons = <<>>
                  /\ ltcBlockers = <<Msg("ltc", "exceeds max")>>
            /\ result.blockers = <<>> /\ LtcApplies(partner) =>
                  result.score = Points(deal, partner) /\ result.score >= 40

\* the boundary: a 65% target against a 65% maximum passes
C11_Witness ==
    /\ Scored
    /\ partner.max_ltc = 65
    /\ deal.target_ltc = 65
    /\ HasMsg(result.reasons, "ltc", "Can do")
    /\ OfCrit(result.blockers, "ltc") = <<>>

\* the number of criteria a partner leaves unrestricted
Unrestricted(p) == 5 - Applicable(p)

\* C13: a partner with two or more unrestricted criteria (no loan types, no
\* property types, no geographies, max_ltc 0) never reaches HIGH MATCH, for
\* any deal: its score is at most 65.
C13_UnrestrictedCeiling ==
    Scored /\ Unrestricted(partner) >= 2 =>
        result.score <= 65 /\ result.match_level # "HIGH MATCH"

\* the ceiling is reached: two criteria unrestricted, the other three pass
C13_Witness ==
    /\ Scored
    /\ Unrestricted(partner) = 2
    /\ partner.geographies = <<>>
    /\ result.score = 65
    /\ result.match_level = "PARTIAL MATCH"

----------------------------------------------------------------------------
(* Spec: main, from the command line to the ranked matches *)

MaxItems == 3

\* find_matches is called at most this many times in a run
MaxCalls == 2

\* the items of the Accounts board of the model: two lenders with the same
\* program, a lender that stops at 65% LTC, a lender with no program data
\* and an account that is no lender
BoardRows ==
    {BoardItem("Alpha", <<"L","e","n","d","e","r">>, <<>>, <<>>, <<"C","o","n","s","t","r","u","c","t","i","o","n",","," ","B","r","i","d","g","e">>, <<"N","Y","C">>, <<"8","0","%">>),
     BoardItem("Beta", <<"L","e","n","d","e","r">>, <<>>, <<>>, <<"C","o","n","s","t","r","u","c","t","i","o","n">>, <<>>, <<"6","5","%">>),
     BoardItem("Gamma", <<"L","P">>, <<>>, <<Column("max_deal_size", <<"$","5","0",",","0","0","0",",","0","0","0">>)>>,
               <<>>, <<>>, <<>>),
     BoardItem("Delta", <<"B","r","o","k","e","r">>, <<>>, <<>>, <<>>, <<>>, <<>>),
     BoardItem("Epsilon", <<"L","e","n","d","e","r">>, <<>>, <<>>, <<"C","o","n","s","t","r","u","c","t","i","o","n",","," ","B","r","i","d","g","e">>, <<"N","Y","C">>, <<"8","0","%">>)}

Boards == UNION {[1..n -> BoardRows] : n \in 0..MaxItems}

\* the command line: --deal (empty when absent), --deal-size (0 when absent)
\* and the four options that have defaults
ArgDeals         == {"", "41-08 Crescent"}
ArgDealSizes     == {0, 10000000, 100000000}
ArgPropertyTypes == {Multifamily}
ArgLocations     == {NYC, <<"L","A">>}
ArgLoanTypes     == {Construction, Bridge}
ArgLtcs          == {75, 65}

Init ==
    /\ MatcherIdle
    /\ PullIdle
    /\ PushIdle

\* main: Build deal object
BuildDeal ==
    /\ pc = "start"
    /\ \E name \in ArgDeals, sz \in ArgDealSizes, pt \in ArgPropertyTypes,
          loc \in ArgLocations, lt \in ArgLoanTypes, ltc \in ArgLtcs :
          deal' = Deal(IF name # "" THEN name ELSE "Test Deal",
                       IF sz # 0 THEN sz ELSE 100000000, pt, loc, lt, ltc)
    /\ pc' = "deal"
    /\ UNCHANGED <<partner, cols, result, partners, matches, calls, printed, pullVars, pushVars>>

\* main: Get partners, with --demo
LoadDemoPartners ==
    /\ pc = "deal"
    /\ partners' = demo_partners
    /\ pc' = "loaded"
    /\ UNCHANGED <<deal, partner, cols, result, matches, calls, printed, pullVars, pushVars>>

\* main: Get partners, from the CRM; the demo partners when none is found
FetchPartners ==
    /\ pc = "deal"
    /\ \E response \in
            {Response(FALSE, FALSE, <<>>), Response(TRUE, TRUE, <<>>)}
            \cup {Response(TRUE, FALSE, items) : items \in Boards} :
          LET fetched == get_capital_partners(response)
          IN  partners' = IF Truthy(fetched) THEN fetched ELSE demo_partners
    /\ pc' = "loaded"
    /\ UNCHANGED <<deal, partner, cols, result, matches, calls, printed, pullVars, pushVars>>

\* main: Find matches
FindMatches ==
    /\ pc = "loaded"
    /\ LET call == CallFindMatches(deal, partners)
       IN  /\ matches' = call.returned
           /\ deal' = call.deal
           /\ partners' = call.partners
    /\ calls' = calls + 1
    /\ pc' = "matched"
    /\ UNCHANGED <<partner, cols, result, printed, pullVars, pushVars>>

\* find_matches called once more with the deal and the list as they are now
FindMatchesAgain ==
    /\ pc = "matched"
    /\ calls < MaxCalls
    /\ LET call == CallFindMatches(deal, partners)
       IN  /\ matches' = call.returned
           /\ deal' = call.deal
           /\ partners' = call.partners
    /\ calls' = calls + 1
    /\ UNCHANGED <<pc, partner, cols, result, printed, pullVars, pushVars>>

\* main: Print results
PrintMatches ==
    /\ pc = "matched"
    /\ printed' = print_matches(deal, matches)
    /\ pc' = "printed"
    /\ UNCHANGED <<deal, partner, cols, result, partners, matches, calls, pullVars, pushVars>>

Next ==
    \/ BuildDeal \/ LoadDemoPartners \/ FetchPartners
    \/ FindMatches \/ FindMatchesAgain \/ PrintMatches

Spec == Init /\ [][Next]_vars

\* the place the result of partners[i] must take in the ranking: after the
\* results of higher score and after the earlier results of equal score
Rank(i) ==
    LET score(j) == match_partner(deal, partners[j]).score
    IN  1 + Cardinality({j \in 1..Len(partners) : score(j) > score(i)})
          + Cardinality({j \in 1..(i - 1) : score(j) = score(i)})

\* C8: find_matches returns exactly one result for each of the N partners,
\* ordered by score descending, and results of equal score keep the order
\* their partners have in the input list.
C8_RankedStable ==
    pc = "matched" =>
        /\ Len(matches) = Len(partners)
        /\ \A i \in 1..Len(partners) :
              matches[Rank(i)] = match_partner(deal, partners[i])
        /\ \A k \in 1..(Len(matches) - 1) :
              matches[k].score >= matches[k + 1].score

\* three fetched partners ranked: the first scores lower than the other
\* two, which tie and keep their order
C8_Witness ==
    /\ pc = "matched"
    /\ Len(partners) = 3
    /\ partners[1].name = "Beta"
    /\ partners[2].name = "Epsilon"
    /\ partners[3].name = "Alpha"
    /\ matches[1].partner = "Epsilon"
    /\ matches[2].partner = "Alpha"
    /\ matches[1].score = matches[2].score
    /\ matches[2].score > matches[3].score

C14_EveryResultPrinted ==
    pc = "printed" =>
        /\ Len(printed) = Len(matches)
        /\ \A i \in 1..Len(matches) :
              \E k \in 1..Len(printed) :
                  /\ printed[k].partner = matches[i].partner
                  /\ printed[k].heading = matches[i].match_level

----------------------------------------------------------------------------
(* pull_new_permits (pull_dob_permits.py): fetch permits and merge them    *)
(* into dob_permits.csv.  Of a permit the model keeps the two columns the  *)
(* function reads, job__ and proposed_dwelling_units.  A CSV cell is its   *)
(* text; a cell of a DataFrame column carries the type pandas gave it,     *)
(* because astype(str) and to_csv write an int, a float and a string of    *)
(* the same digits differently.                                            *)

DigitSet == {Digits[i] : i \in 1..Len(Digits)}

IsDigits(s) == s # <<>> /\ \A i \in 1..Len(s) : s[i] \in DigitSet

\* digits followed by ".0", the way a whole float is written
IsFloatForm(s) ==
    /\ Len(s) >= 3
    /\ s[Len(s) - 1] = "."
    /\ s[Len(s)] = "0"
    /\ IsDigits(SubSeq(s, 1, Len(s) - 2))

IntPart(s) == IF IsFloatForm(s) THEN SubSeq(s, 1, Len(s) - 2) ELSE s

\* the decimal digits of int(s)
RECURSIVE StripZeros(_)
StripZeros(s) == IF Len(s) > 1 /\ Head(s) = "0" THEN StripZeros(Tail(s)) ELSE s

StrCell(s)   == [t |-> "str", v |-> s]
IntCell(s)   == [t |-> "int", v |-> StripZeros(s)]
FloatCell(s) == [t |-> "float", v |-> StripZeros(IntPart(s))]
NaN          == [t |-> "nan", v |-> <<>>]

\* pd.read_csv's type inference on one column of cell texts
ReadColumn(texts) ==
    IF \A i \in 1..Len(texts) : IsDigits(texts[i])
    THEN [i \in 1..Len(texts) |-> IntCell(texts[i])]
    ELSE IF \A i \in 1..Len(texts) : texts[i] = <<>> \/ IsDigits(texts[i]) \/ IsFloatForm(texts[i])
    THEN [i \in 1..Len(texts) |-> IF texts[i] = <<>> THEN NaN ELSE FloatCell(texts[i])]
    ELSE [i \in 1..Len(texts) |-> IF texts[i] = <<>> THEN NaN ELSE StrCell(texts[i])]

\* Series.astype(str) on one cell
AsStr(c) ==
    IF c.t = "nan" THEN <<"n","a","n">>
    ELSE IF c.t = "float" THEN c.v \o <<".","0">>
    ELSE c.v

\* to_csv's text of one cell
CsvText(c) ==
    IF c.t = "nan" THEN <<>>
    ELSE IF c.t = "float" THEN c.v \o <<".","0">>
    ELSE c.v

\* one record of the API's JSON answer; a key may be absent
Permit(has_job, job, has_units, units) == [has_job |-> has_job, job |-> job, has_units |-> has_units, units |-> units]

\* pd.DataFrame(data) restricted to the columns of interest
DataFrame(data) ==
    [has_job   |-> \E i \in 1..Len(data) : data[i].has_job,
     has_units |-> \E i \in 1..Len(data) : data[i].has_units,
     rows      |-> [i \in 1..Len(data) |->
                      [job   |-> IF data[i].has_job THEN StrCell(data[i].job) ELSE NaN,
                       units |-> IF data[i].has_units THEN data[i].units ELSE <<>>]]]

\* pd.read_csv(CSV_FILE)
read_csv(file) ==
    LET jobs == ReadColumn([i \in 1..Len(file.rows) |-> file.rows[i].job])
    IN  [has_job   |-> file.has_job,
         has_units |-> file.has_units,
         rows      |-> [i \in 1..Len(file.rows) |->
                          [job   |-> IF file.has_job THEN jobs[i] ELSE NaN,
                           units |-> file.rows[i].units]]]

\* the merge of the existing DataFrame with the fetched one
Merge(existing_df, new_df) ==
    IF existing_df.has_job /\ new_df.has_job
    THEN LET existing_jobs == {AsStr(existing_df.rows[i].job) : i \in 1..Len(existing_df.rows)}
             new_records   == SelectSeq(new_df.rows, LAMBDA r : AsStr(r.job) \notin existing_jobs)
         IN  [has_job   |-> TRUE,
              has_units |-> existing_df.has_units \/ new_df.has_units,
              rows      |-> existing_df.rows \o new_records]
    ELSE new_df

Combined(file, new_df) == IF file.exists THEN Merge(read_csv(file), new_df) ELSE new_df

\* pd.to_numeric(errors='coerce').fillna(0) of one cell, as a number
UnitsValue(text) == IF IsDigits(text) \/ IsFloatForm(text) THEN ToNumber(IntPart(text)) ELSE 0

\* the coerced column is int64 when every cell is a whole number's digits,
\* and float64 otherwise; to_csv writes a float with ".0"
CoerceUnits(rows) ==
    LET allInt == \A i \in 1..Len(rows) : IsDigits(rows[i].units)
        whole(text) == IF IsDigits(text) \/ IsFloatForm(text) THEN StripZeros(IntPart(text)) ELSE <<"0">>
    IN  [i \in 1..Len(rows) |->
            [job   |-> rows[i].job,
             units |-> IF allInt THEN whole(rows[i].units) ELSE whole(rows[i].units) \o <<".","0">>]]

\* sort_values('proposed_dwelling_units', ascending=False): the default
\* quicksort is not stable, so rows of equal units come out in any order
SortedOrders(rows) ==
    {[i \in 1..Len(rows) |-> rows[order[i]]] : order \in
        {o \in Permutations(1..Len(rows)) :
            \A i, j \in 1..Len(rows) : i < j => UnitsValue(rows[o[i]].units) >= UnitsValue(rows[o[j]].units)}}

\* what to_csv writes for the DataFrame df
to_csv(df, rows) ==
    [exists    |-> TRUE,
     has_job   |-> df.has_job,
     has_units |-> df.has_units,
     rows      |-> [i \in 1..Len(rows) |-> [job |-> CsvText(rows[i].job), units |-> rows[i].units]]]

\* Sort by units and save: the files the function may leave
Saved(df) ==
    IF df.has_units
    THEN {to_csv(df, rows) : rows \in SortedOrders(CoerceUnits(df.rows))}
    ELSE {to_csv(df, df.rows)}

\* the API's answer
Answer(status, data) == [status |-> status, data |-> data]

J101 == <<"1","0","1">>
J102 == <<"1","0","2">>
J007 == <<"0","0","7">>

P101      == Permit(TRUE, J101, TRUE, <<"1","2">>)
P101Again == Permit(TRUE, J101, TRUE, <<"3">>)
P102      == Permit(TRUE, J102, FALSE, <<>>)
P007      == Permit(TRUE, J007, TRUE, <<"1","2">>)
PNoJob    == Permit(FALSE, <<>>, TRUE, <<"4","0">>)
PNoUnits  == Permit(TRUE, <<"1","0","3">>, TRUE, <<"N","/","A">>)

Answers ==
    {Answer(500, <<>>), Answer(200, <<>>),
     Answer(200, <<P101>>), Answer(200, <<P102>>), Answer(200, <<P101, P102>>),
     Answer(200, <<P101Again>>), Answer(200, <<P101, P101Again>>),
     Answer(200, <<P007>>), Answer(200, <<PNoJob>>), Answer(200, <<P102, PNoJob>>),
     Answer(200, <<PNoUnits, P101>>)}

MaxPulls == 3

PullInit ==
    /\ MatcherIdle
    /\ PullIdle
    /\ PushIdle

PullNewPermits ==
    /\ pulls < MaxPulls
    /\ \E r \in Answers :
          /\ dob_response' = r
          /\ IF r.status # 200 \/ r.data = <<>>
             THEN csv_file' = csv_file
             ELSE \E saved \in Saved(Combined(csv_file, DataFrame(r.data))) : csv_file' = saved
    /\ pulls' = pulls + 1
    /\ UNCHANGED <<matcherVars, pushVars>>

NextPull == PullNewPermits

PullSpec == PullInit /\ [][NextPull]_vars

\* a permit is identified by its job number, however the cell is written
JobKey(text) == IF IsDigits(text) \/ IsFloatForm(text) THEN StripZeros(IntPart(text)) ELSE text

JobKeys(file) == {JobKey(file.rows[i].job) : i \in 1..Len(file.rows)}

CountJob(file, key) == Cardinality({i \in 1..Len(file.rows) : JobKey(file.rows[i].job) = key})

\* C15: a pull that saves keeps every record of the existing file and adds
\* no record whose job__ is already in it; a pull that gets a non-200
\* answer or an empty result leaves the file unchanged
C15_MergeKeepsExisting ==
    [][/\ (dob_response'.status # 200 \/ dob_response'.data = <<>>) => csv_file' = csv_file
       /\ \A key \in JobKeys(csv_file) :
             /\ CountJob(csv_file', key) >= CountJob(csv_file, key)
             /\ key # <<>> => CountJob(csv_file', key) = CountJob(csv_file, key)]_vars

----------------------------------------------------------------------------
(* The "Push Selected to Monday" batch of the Streamlit page (app.py).  A  *)
(* row of filtered_display is its address; the leads board is the set of   *)
(* its items' names.  One step of the model is one iteration of the loop   *)
(* over the selected rows; the last iteration runs on to the end of the    *)
(* handler.  A script run that follows has none of the batch's locals.     *)

ToUpper ==
    [c \in {LowerChars[i] : i \in 1..Len(LowerChars)} |->
        UpperChars[CHOOSE i \in 1..Len(LowerChars) : LowerChars[i] = c]]

\* str.upper()
Upper(s) == [i \in 1..Len(s) |-> IF s[i] \in DOMAIN ToUpper THEN ToUpper[s[i]] ELSE s[i]]

\* the address column of filtered_display
Addresses ==
    << <<"1"," ","E","l","m">>,
       <<" ","1"," ","e","l","m"," ">>,
       <<"2"," ","O","a","k">> >>

\* the names the board's items may have before the page is opened
InitialBoards == { {}, {<<"2"," ","o","a","k">>}, {<<"9"," ","A","s","h">>} }

AllRows(flag) == [i \in 1..Len(Addresses) |-> flag]

\* get_existing_addresses: the names trimmed and upper-cased, or the empty
\* set when the answer has no board or no data
get_existing_addresses(well_formed) ==
    IF well_formed THEN {Upper(Strip(name)) : name \in board} ELSE {}

\* selected_indices, in row order
RECURSIVE SelectedFrom(_, _)
SelectedFrom(sel, i) ==
    IF i > Len(sel) THEN <<>>
    ELSE (IF sel[i] THEN <<i>> ELSE <<>>) \o SelectedFrom(sel, i + 1)

selected_indices(sel) == SelectedFrom(sel, 1)

Message(kind, i) == [kind |-> kind, row |-> i]

PushCall(i, created) == [row |-> i, item_name |-> Addresses[i], created |-> created]

\* the locals of the handler when the loop starts
NewBatch(existing) ==
    [state              |-> "running",
     fetched            |-> existing,
     existing_addresses |-> existing,
     selected_indices   |-> selected_indices(selections),
     idx                |-> 1,
     success_count      |-> 0,
     skipped_count      |-> 0,
     messages           |-> <<>>]

\* one iteration of the loop on row i; `created` is whether the board
\* answers push_to_monday with a create_item
ProcessRow_ForgetsPushed(b, i, created) ==
    LET address == Upper(Strip(Addresses[i]))
    IN  IF address \in b.existing_addresses
        THEN [batch |-> [b EXCEPT !.skipped_count = @ + 1, !.messages = Append(@, Message("warning", i)), !.idx = @ + 1],
              calls |-> <<>>]
        ELSE IF created
        THEN [batch |-> [b EXCEPT !.success_count = @ + 1, !.messages = Append(@, Message("success", i)), !.idx = @ + 1],
              calls |-> <<PushCall(i, TRUE)>>]
        ELSE [batch |-> [b EXCEPT !.messages = Append(@, Message("error", i)), !.idx = @ + 1],
              calls |-> <<PushCall(i, FALSE)>>]

ProcessRow(b, i, created) ==
    LET address == Upper(Strip(Addresses[i]))
    IN  IF address \in b.existing_addresses
        THEN [batch |-> [b EXCEPT !.skipped_count = @ + 1, !.messages = Append(@, Message("warning", i)), !.idx = @ + 1],
              calls |-> <<>>]
        ELSE IF created
        THEN [batch |-> [b EXCEPT !.success_count = @ + 1, !.existing_addresses = @ \cup {address},
                                  !.messages = Append(@, Message("success", i)), !.idx = @ + 1],
              calls |-> <<PushCall(i, TRUE)>>]
        ELSE [batch |-> [b EXCEPT !.messages = Append(@, Message("error", i)), !.idx = @ + 1],
              calls |-> <<PushCall(i, FALSE)>>]

Running == batch # None /\ batch.state = "running"

PushInit ==
    /\ MatcherIdle
    /\ PullIdle
    /\ selections = AllRows(FALSE)
    /\ board \in InitialBoards
    /\ batch = None
    /\ push_log = <<>>

\* the user ticks or unticks one checkbox of the data editor
Toggle ==
    /\ ~Running
    /\ \E i \in 1..Len(Addresses) : selections' = [selections EXCEPT ![i] = ~@]
    /\ batch' = None
    /\ UNCHANGED <<board, push_log, matcherVars, pullVars>>

SelectAll ==
    /\ ~Running
    /\ selections' = AllRows(TRUE)
    /\ batch' = None
    /\ UNCHANGED <<board, push_log, matcherVars, pullVars>>

DeselectAll ==
    /\ ~Running
    /\ selections' = AllRows(FALSE)
    /\ batch' = None
    /\ UNCHANGED <<board, push_log, matcherVars, pullVars>>

\* the button is pressed with at least one row selected
StartBatch ==
    /\ ~Running
    /\ \E i \in 1..Len(selections) : selections[i]
    /\ \E well_formed \in BOOLEAN : batch' = NewBatch(get_existing_addresses(well_formed))
    /\ push_log' = <<>>
    /\ UNCHANGED <<selections, board, matcherVars, pullVars>>

\* one iteration; after the last one the handler clears the selections
BatchStep ==
    /\ Running
    /\ \E created \in BOOLEAN :
          LET i    == batch.selected_indices[batch.idx]
              step == ProcessRow(batch, i, created)
              last == batch.idx = Len(batch.selected_indices)
          IN  /\ batch' = IF last THEN [step.batch EXCEPT !.state = "ended"] ELSE step.batch
              /\ push_log' = push_log \o step.calls
              /\ board' = board \cup {step.calls[k].item_name : k \in {n \in 1..Len(step.calls) : step.calls[n].created}}
              /\ selections' = IF last THEN AllRows(FALSE) ELSE selections
    /\ UNCHANGED <<matcherVars, pullVars>>

NextPush == Toggle \/ SelectAll \/ DeselectAll \/ StartBatch \/ BatchStep

PushSpec == PushInit /\ [][NextPush]_vars

\* the trimmed, upper-cased address of row i
Normalised(i) == Upper(Strip(Addresses[i]))

CountKind(kind) == Cardinality({m \in 1..Len(batch.messages) : batch.messages[m].kind = kind})

CountCalls(created) == Cardinality({k \in 1..Len(push_log) : push_log[k].created = created})

\* C16: in one batch push_to_monday is never called for a row whose
\* normalised address was fetched from the board at the start or was pushed
\* successfully earlier in the batch; the rows are taken in selection order,
\* each is exactly one of pushed, skipped or failed, and the selections are
\* all cleared when the batch has ended
C16_BatchPushesOnce ==
    batch # None =>
        LET processed == batch.idx - 1
        IN  /\ \A k \in 1..Len(push_log) :
                  /\ Normalised(push_log[k].row) \notin batch.fetched
                  /\ \A j \in 1..(k - 1) :
                        push_log[j].created => Normalised(push_log[j].row) # Normalised(push_log[k].row)
            /\ Len(batch.messages) = processed
            /\ \A m \in 1..processed :
                  /\ batch.messages[m].row = batch.selected_indices[m]
                  /\ batch.messages[m].kind \in {"success", "warning", "error"}
            /\ \A m, n \in 1..Len(batch.selected_indices) : m < n => batch.selected_indices[m] < batch.selected_indices[n]
            /\ batch.success_count = CountKind("success")
            /\ batch.success_count = CountCalls(TRUE)
            /\ batch.skipped_count = CountKind("warning")
            /\ CountKind("error") = CountCalls(FALSE)
            /\ batch.success_count + batch.skipped_count + CountKind("error") = processed
            /\ batch.state = "running" =>
                  \A i \in 1..Len(Addresses) :
                      selections[i] <=> \E m \in 1..Len(batch.selected_indices) : batch.selected_indices[m] = i
            /\ batch.state = "ended" =>
                  /\ processed = Len(batch.selected_indices)
                  /\ \A i \in 1..Len(selections) : ~selections[i]

\* a batch over all three rows has ended: the first was pushed, the second
\* skipped for the address pushed just before, the third for being on the board
C16_Witness ==
    /\ batch # None
    /\ batch.state = "ended"
    /\ batch.messages = <<Message("success", 1), Message("warning", 2), Message("warning", 3)>>
    /\ Normalised(2) \notin batch.fetched
    /\ Normalised(3) \in batch.fetched
    /\ Len(push_log) = 1

====
